---- MODULE Spec2Model ----
\* Model of the image codecs of juce_graphics/image_formats:
\*   - BMPImageFormat, 8/24/32-bit codec      (src/unnamed/part_001)
\*   - BMPImageFormat, earlier 24-bit decoder (juce_BMPLoader.cpp)
\*   - HEIFImageFormat::canUnderstand         (juce_HEIFLoader.cpp, part_001, part_002)
\* Streams are sequences of bytes (index 1 = stream position 0).
EXTENDS Integers, Sequences, FiniteSets, TLC

VARIABLES input, pos, startPos, srcImage, dst, op, ret, image, ctorArgs, alloc, phase,
          trace, calc

vars == <<input, pos, startPos, srcImage, dst, op, ret, image, ctorArgs, alloc, phase,
          trace, calc>>

\* ---------------------------------------------------------------- bounds
MaxWidth == 2
MaxHeight == 2
MaxColoursUsed == 2
MaxSeed == 1
MaxStartPos == 1
MaxStrideWidth == 12

\* ------------------------------------------------------- program constants
CharB == 66
CharM == 77
BMPHeaderSize == 54
BMPFileHeaderSize == 14
BMPInfoHeaderSize == 40
BMType == 19778
DefaultPaletteSize == 256
PixelsPerMeter == 2835
HeifFtyp == 1752201588
HeifHeic == 6515045
HeifSniffPrefix == 13

\* ------------------------------------------------------------- arithmetic
Min(a, b) == IF a < b THEN a ELSE b

Max(a, b) == IF a > b THEN a ELSE b

Abs(a) == IF a < 0 THEN 0 - a ELSE a

\* a byte read as signed char
ToInt8(b) == IF b >= 128 THEN b - 256 ELSE b

\* four little-endian bytes as an int
Int32LE(b0, b1, b2, b3) == b0 + 256 * b1 + 65536 * b2 + 16777216 * ToInt8(b3)

\* value of a 16-bit pattern read as int16
ToInt16(u) == IF u >= 32768 THEN u - 65536 ELSE u

\* OutputStream::writeShort / writeInt: little-endian bytes of the low bits
LE16(v) == LET u == v % 65536 IN <<u % 256, u \div 256>>

\* the low 31 bits of a negative int: v + 2^31
Low31(v) == (v + 1) + 2147483647

LE32(v) == LET neg == v < 0
               u == IF neg THEN Low31(v) ELSE v
           IN <<u % 256, (u \div 256) % 256, (u \div 65536) % 256,
                (u \div 16777216) + (IF neg THEN 128 ELSE 0)>>

\* ------------------------------------------------------------ InputStream
\* the byte at stream position q (0-based); only used with q < Len(s)
ByteAt(s, q) == s[q + 1]

\* MemoryInputStream::read: copies what is left, up to n bytes, and advances
ReadCount(s, p, n) == Max(0, Min(n, Len(s) - p))

\* InputStream::readByte: the next byte, or 0 at the end of the stream
readByte(s, p) ==
    IF p < Len(s) THEN [val |-> ByteAt(s, p), pos |-> p + 1]
                  ELSE [val |-> 0, pos |-> p]

\* InputStream::readShort: two bytes little-endian, or 0 on a short read
readShort(s, p) ==
    IF p + 2 <= Len(s)
    THEN [val |-> ByteAt(s, p) + 256 * ByteAt(s, p + 1), pos |-> p + 2]
    ELSE [val |-> 0, pos |-> p + ReadCount(s, p, 2)]

\* InputStream::readInt: four bytes little-endian, or 0 on a short read
readInt(s, p) ==
    IF p + 4 <= Len(s)
    THEN [val |-> Int32LE(ByteAt(s, p), ByteAt(s, p + 1), ByteAt(s, p + 2), ByteAt(s, p + 3)),
          pos |-> p + 4]
    ELSE [val |-> 0, pos |-> p + ReadCount(s, p, 4)]

\* InputStream::setPosition on a memory stream: clamps into the data; p is a
\* uint32_t kept as its int bit pattern, so a negative p is beyond any stream
setPosition(s, p) == IF p < 0 THEN Len(s) ELSE Min(p, Len(s))

\* ------------------------------------------------------------------ Image
NullImage == [null |-> TRUE, format |-> "none", width |-> 0, height |-> 0, px |-> <<>>]

Coords(w, h) == (0 .. w - 1) \X (0 .. h - 1)

\* pixels are <<alpha, red, green, blue>>
ClearPixel(format) == IF format = "RGB" THEN <<255, 0, 0, 0>> ELSE <<0, 0, 0, 0>>

\* Image (format, width, height, clearImage = true): a zero or negative
\* dimension gives no pixel buffer
ImageCreate(format, w, h) ==
    IF w <= 0 \/ h <= 0
    THEN NullImage
    ELSE [null |-> FALSE, format |-> format, width |-> w, height |-> h,
          px |-> [c \in Coords(w, h) |-> ClearPixel(format)]]

isValid(img) == ~img.null

\* Image::convertedToFormat (ARGB): an opaque alpha channel is added to RGB
convertedToARGB(img) ==
    IF img.null \/ img.format = "ARGB"
    THEN img
    ELSE [img EXCEPT !.format = "ARGB",
                     !.px = [c \in DOMAIN img.px |->
                               <<255, img.px[c][2], img.px[c][3], img.px[c][4]>>]]

\* ------------------------------------------- BMPImageFormat (part_001)
\* canUnderstand: readByte() == 'B' && readByte() == 'M'; the second byte is
\* read only when the first one matched
canUnderstand_FirstByteOnly(s, p) ==
    LET b1 == readByte(s, p)
        b2 == readByte(s, b1.pos)
    IN IF b1.val = CharB
       THEN [ret |-> TRUE, pos |-> b2.pos]
       ELSE [ret |-> FALSE, pos |-> b1.pos]

canUnderstand_AlwaysTwo(s, p) ==
    LET b1 == readByte(s, p)
        b2 == readByte(s, b1.pos)
    IN [ret |-> b1.val = CharB /\ b2.val = CharM, pos |-> b2.pos]

canUnderstand(s, p) ==
    LET b1 == readByte(s, p)
        b2 == readByte(s, b1.pos)
    IN IF b1.val = CharB
       THEN [ret |-> b2.val = CharM, pos |-> b2.pos]
       ELSE [ret |-> FALSE, pos |-> b1.pos]

\* byte widths of the header fields, in the order decodeImage reads them
HeaderFieldSizes == <<2, 4, 2, 2, 4, 4, 4, 4, 2, 2, 4, 4, 4, 4, 4, 4>>

RECURSIVE ReadFields(_, _, _, _)
ReadFields(s, p, sizes, acc) ==
    IF sizes = <<>>
    THEN [vals |-> acc, pos |-> p]
    ELSE LET r == IF Head(sizes) = 2 THEN readShort(s, p) ELSE readInt(s, p)
         IN ReadFields(s, r.pos, Tail(sizes), Append(acc, r.val))

\* the sixteen readShort/readInt calls that fill BMPHeader
readHeader(s, p) ==
    LET f == ReadFields(s, p, HeaderFieldSizes, <<>>)
        v == f.vals
    IN [magic |-> v[1], fileSize |-> v[2], reserved1 |-> v[3], reserved2 |-> v[4],
        dataOffset |-> v[5], headerSize |-> v[6],
        width |-> (v[7]), height |-> (v[8]),
        planes |-> v[9], bitsPerPixel |-> v[10], compression |-> v[11],
        imageDataSize |-> v[12],
        hPixelsPerMeter |-> (v[13]), vPixelsPerMeter |-> (v[14]),
        coloursUsed |-> v[15], coloursRequired |-> v[16], pos |-> f.pos]

\* the "Unsupported BMP format" test
Unsupported_CompressionOnly(hdr) == hdr.compression # 0

Unsupported(hdr) ==
    hdr.compression # 0 \/ (hdr.bitsPerPixel # 8 /\ hdr.bitsPerPixel # 24 /\ hdr.bitsPerPixel # 32)

\* number of iterations of the colour table loop
PaletteCount(hdr) ==
    IF hdr.bitsPerPixel = 8 /\ hdr.coloursUsed = 0
    THEN DefaultPaletteSize
    ELSE Max(0, (hdr.coloursUsed))

\* the colour table loop: four readByte calls per entry (b, g, r, unused).
\* readByte advances by one until the end of the stream and yields 0 from
\* there on, so the k-th call made from p reads position p + k
readColourTable(s, p, n) ==
    [table |-> [i \in 1 .. n |->
                  LET q == p + 4 * (i - 1)
                  IN <<255, readByte(s, q + 2).val, readByte(s, q + 1).val, readByte(s, q).val>>],
     pos |-> Min(p + 4 * n, Len(s))]

\* juce::Array::operator[]: a default-constructed element when out of range
TableAt(table, i) == IF i + 1 <= Len(table) THEN table[i + 1] ELSE <<0, 0, 0, 0>>

\* int (std::floor ((bitsPerPixel * width + 31) / 32.0) * 4)
BytesPerRow_NoRounding(bitsPerPixel, width) == ((bitsPerPixel * width) \div 32) * 4

BytesPerRow_Words(bitsPerPixel, width) == (bitsPerPixel * width + 31) \div 32

BytesPerRow(bitsPerPixel, width) == ((bitsPerPixel * width + 31) \div 32) * 4

\* buffer row that receives the y-th row of the file
DestRow_NoFlip(bottomUp, height, y) == y

DestRow(bottomUp, height, y) == IF bottomUp THEN y ELSE height - y - 1

\* InputStream::read into rowData: the bytes read replace the front of the buffer
ReadInto(buf, s, p, n) ==
    LET k == ReadCount(s, p, n)
    IN [i \in 1 .. Len(buf) |-> IF i <= k THEN ByteAt(s, p + i - 1) ELSE buf[i]]

\* the colour one pixel gets from the row buffer
PixelFromRow_RGBOrder(rowData, x, hdr, table) ==
    LET bytesPerPixel == hdr.bitsPerPixel \div 8
        d == x * bytesPerPixel
    IN IF hdr.bitsPerPixel = 8
       THEN TableAt(table, rowData[d + 1])
       ELSE <<IF bytesPerPixel = 4 THEN rowData[d + 4] ELSE 255,
              rowData[d + 1], rowData[d + 2], rowData[d + 3]>>

PixelFromRow(rowData, x, hdr, table) ==
    LET bytesPerPixel == hdr.bitsPerPixel \div 8
        d == x * bytesPerPixel
    IN IF hdr.bitsPerPixel = 8
       THEN TableAt(table, rowData[d + 1])
       ELSE <<IF bytesPerPixel = 4 THEN rowData[d + 4] ELSE 255,
              rowData[d + 3], rowData[d + 2], rowData[d + 1]>>

\* the row buffer indexes read for pixel x: d[0] for 8 bits, d[0..2] for 24
\* bits, d[0..3] for 32 bits, with d = &rowData[x * bytesPerPixel]
PixelIndexes(x, bitsPerPixel) ==
    LET bytesPerPixel == bitsPerPixel \div 8
        d == x * bytesPerPixel
    IN IF bitsPerPixel = 8 THEN {d}
       ELSE IF bytesPerPixel = 4 THEN {d, d + 1, d + 2, d + 3}
       ELSE {d, d + 1, d + 2}

\* the x values of the pixel loop; beyond MaxStrideWidth only its two ends
PixelColumns(width) ==
    IF width <= MaxStrideWidth THEN 0 .. width - 1 ELSE {0, width - 1}

\* the highest row buffer index the pixel loop reads, -1 when it reads none
HighestIndex(width, bitsPerPixel) ==
    LET all == UNION {PixelIndexes(x, bitsPerPixel) : x \in PixelColumns(width)}
    IN IF all = {} THEN 0 - 1 ELSE CHOOSE i \in all : \A j \in all : j <= i

\* the position handed to input.setPosition before the row loop
SeekTarget_Sequential(hdr, palettePos) == palettePos

SeekTarget(hdr, palettePos) == hdr.dataOffset

\* the row loop: read bytesPerRow bytes, then store width pixels; starts
\* collects the stream position at which each row is read
RECURSIVE decodeRows(_, _, _, _, _, _, _, _, _)
decodeRows(s, p, y, rowData, px, hdr, table, bottomUp, starts) ==
    IF y >= hdr.height
    THEN [px |-> px, pos |-> p, starts |-> starts]
    ELSE LET n == Len(rowData)
             row == ReadInto(rowData, s, p, n)
             dy == DestRow(bottomUp, hdr.height, y)
             px2 == [c \in DOMAIN px |->
                       IF c[2] = dy THEN PixelFromRow(row, c[1], hdr, table) ELSE px[c]]
         IN decodeRows(s, p + ReadCount(s, p, n), y + 1, row, px2, hdr, table, bottomUp,
                       Append(starts, p))

\* what a decoder did on the way: palette entries read, the stream position at
\* which each row was read, the highest row buffer index read (-1 = none)
NoTrace == [palette |-> 0, rowStarts |-> <<>>, maxIndex |-> 0 - 1]

\* decodeImage; junk is the content of the uninitialised row buffer
decodeImage(s, p, junk) ==
    LET h0 == readHeader(s, p)
    IN IF Unsupported(h0)
       THEN [image |-> NullImage, pos |-> h0.pos, ctorArgs |-> <<>>, alloc |-> 0,
             trace |-> NoTrace]
       ELSE LET pal == readColourTable(s, h0.pos, PaletteCount(h0))
                bottomUp == h0.height < 0
                hdr == [h0 EXCEPT !.height = Abs(h0.height)]
                img == ImageCreate("ARGB", hdr.width, hdr.height)
                p1 == setPosition(s, SeekTarget(hdr, pal.pos))
                bytesPerRow == BytesPerRow(hdr.bitsPerPixel, hdr.width)
                rowData == [i \in 1 .. bytesPerRow |-> junk]
                rows == decodeRows(s, p1, 0, rowData, img.px, hdr, pal.table, bottomUp, <<>>)
            IN [image |-> IF img.null THEN img ELSE [img EXCEPT !.px = rows.px],
                pos |-> rows.pos,
                ctorArgs |-> << <<hdr.width, hdr.height>> >>, alloc |-> bytesPerRow,
                trace |-> [palette |-> Len(pal.table), rowStarts |-> rows.starts,
                           maxIndex |-> IF hdr.height > 0
                                        THEN HighestIndex(hdr.width, hdr.bitsPerPixel)
                                        ELSE 0 - 1]]

\* buffer row written as the y-th row of the file
SourceRow_NoFlip(height, y) == y

SourceRow(height, y) == height - y - 1

\* the four bytes written for one pixel: blue, green, red, alpha
PixelBytes(c) == <<c[4], c[3], c[2], c[1]>>

RECURSIVE writeRow(_, _, _, _)
writeRow(img, row, x, acc) ==
    IF x >= img.width
    THEN acc
    ELSE writeRow(img, row, x + 1, acc \o PixelBytes(img.px[<<x, row>>]))

RECURSIVE writeRows(_, _, _)
writeRows(img, y, acc) ==
    IF y >= img.height
    THEN acc
    ELSE writeRows(img, y + 1, writeRow(img, SourceRow(img.height, y), 0, acc))

\* size written into the file header
FileSizeField(w, h) == 40 + w * h * 4

\* writeImageToStream: the bytes appended to the output stream
writeImageToStream(sourceImage) ==
    LET img == convertedToARGB(sourceImage)
        w == img.width
        h == img.height
        header == <<CharB, CharM>> \o LE32(FileSizeField(w, h)) \o LE16(0) \o LE16(0)
                  \o LE32(54) \o LE32(40) \o LE32(w) \o LE32(h) \o LE16(1) \o LE16(32)
                  \o LE32(0) \o LE32(w * h * 4) \o LE32(PixelsPerMeter) \o LE32(PixelsPerMeter)
                  \o LE32(0) \o LE32(0)
    IN writeRows(img, 0, header)

\* ------------------------------- BMPImageFormat (juce_BMPLoader.cpp)
\* a packed struct filled by in.read: the little-endian field of n bytes at q
FieldAt(s, q, n) ==
    IF n = 2 THEN ByteAt(s, q) + 256 * ByteAt(s, q + 1)
             ELSE Int32LE(ByteAt(s, q), ByteAt(s, q + 1), ByteAt(s, q + 2), ByteAt(s, q + 3))

\* BitmapInfoHeader as laid out after the 14-byte BitmapFileHeader at q
readInfo(s, q) ==
    [size |-> FieldAt(s, q, 4), width |-> (FieldAt(s, q + 4, 4)),
     height |-> (FieldAt(s, q + 8, 4)), planes |-> ToInt16(FieldAt(s, q + 12, 2)),
     bitCount |-> ToInt16(FieldAt(s, q + 14, 2)), compression |-> FieldAt(s, q + 16, 4)]

\* the earlier canUnderstand: both headers are read and validated
canUnderstandOld(s, p) ==
    IF ReadCount(s, p, BMPFileHeaderSize) # BMPFileHeaderSize
    THEN [ret |-> FALSE, pos |-> p + ReadCount(s, p, BMPFileHeaderSize)]
    ELSE IF FieldAt(s, p, 2) # BMType
    THEN [ret |-> FALSE, pos |-> p + BMPFileHeaderSize]
    ELSE LET q == p + BMPFileHeaderSize
         IN IF ReadCount(s, q, BMPInfoHeaderSize) # BMPInfoHeaderSize
            THEN [ret |-> FALSE, pos |-> q + ReadCount(s, q, BMPInfoHeaderSize)]
            ELSE LET info == readInfo(s, q)
                 IN [ret |-> info.compression = 0 /\ info.bitCount = 24
                             /\ info.width > 0 /\ info.height > 0,
                     pos |-> q + BMPInfoHeaderSize]

\* (((width * bitCount) + 31) & ~31) >> 3
StrideOld(width, bitCount) ==
    LET v == width * bitCount + 31
        masked == v - (v % 32)
    IN masked \div 8

\* a byte of the scan line; outside the block the value is whatever is there
BufAt(buf, i, junk) == IF i + 1 <= Len(buf) THEN buf[i + 1] ELSE junk

\* Colour (*(pixelPtr), *(pixelPtr + 1), *pixelPtr + 2) stored in an RGB image
PixelFromScanLine(buf, x, bitCount, junk) ==
    LET o == (x * bitCount) \div 8
    IN <<255, BufAt(buf, o, junk), BufAt(buf, o + 1, junk), (BufAt(buf, o, junk) + 2) % 256>>

\* the scan line loop; a short read returns the image as it is
RECURSIVE decodeRowsOld(_, _, _, _, _, _, _)
decodeRowsOld(s, p, y, buf, px, info, junk) ==
    IF y >= Abs(info.height)
    THEN [px |-> px, pos |-> p]
    ELSE LET stride == Len(buf)
             got == ReadCount(s, p, stride)
             line == ReadInto(buf, s, p, stride)
             dy == DestRow(info.height < 0, Abs(info.height), y)
             px2 == [c \in DOMAIN px |->
                       IF c[2] = dy
                       THEN PixelFromScanLine(line, c[1], info.bitCount, junk)
                       ELSE px[c]]
         IN IF got # stride
            THEN [px |-> px, pos |-> p + got]
            ELSE decodeRowsOld(s, p + got, y + 1, line, px2, info, junk)

\* the highest scan line index the pixel loop reads: pixelPtr[0] and
\* pixelPtr[1] with pixelPtr = imageData + x * bitCount / 8; -1 when none
HighestIndexOld(width, bitCount) ==
    IF width <= 0 THEN 0 - 1 ELSE ((width - 1) * bitCount) \div 8 + 1

\* the earlier decodeImage
decodeImageOld(s, p, junk) ==
    LET none == [image |-> NullImage, pos |-> p, ctorArgs |-> <<>>, alloc |-> 0,
                 trace |-> NoTrace]
    IN IF ReadCount(s, p, BMPFileHeaderSize) # BMPFileHeaderSize
       THEN [none EXCEPT !.pos = p + ReadCount(s, p, BMPFileHeaderSize)]
       ELSE IF FieldAt(s, p, 2) # BMType
       THEN [none EXCEPT !.pos = p + BMPFileHeaderSize]
       ELSE LET q == p + BMPFileHeaderSize
            IN IF ReadCount(s, q, BMPInfoHeaderSize) # BMPInfoHeaderSize
               THEN [none EXCEPT !.pos = q + ReadCount(s, q, BMPInfoHeaderSize)]
               ELSE LET info == readInfo(s, q)
                        img == ImageCreate("RGB", info.width, Abs(info.height))
                        stride == StrideOld(info.width, info.bitCount)
                        scanLine == [i \in 1 .. stride |-> junk]
                        rows == decodeRowsOld(s, q + BMPInfoHeaderSize, 0, scanLine,
                                              img.px, info, junk)
                    IN [image |-> IF img.null THEN img ELSE [img EXCEPT !.px = rows.px],
                        pos |-> rows.pos,
                        ctorArgs |-> << <<info.width, Abs(info.height)>> >>,
                        alloc |-> stride,
                        trace |-> [NoTrace EXCEPT !.maxIndex =
                                     IF Abs(info.height) > 0
                                        /\ ReadCount(s, q + BMPInfoHeaderSize, stride) = stride
                                     THEN HighestIndexOld(info.width, info.bitCount)
                                     ELSE 0 - 1]]

\* ------------------------------------------------------- HEIFImageFormat
\* canUnderstand built on libheif: the rest of the stream is copied into a
\* MemoryBlock and handed to the library, whose verdict is ok
HEIFcanUnderstandLib(s, p, ok) ==
    LET remaining == Len(s) - p
    IN [ret |-> ok, pos |-> p + ReadCount(s, p, remaining), alloc |-> remaining]

RECURSIVE SkipBytes(_, _, _)
SkipBytes(s, p, n) == IF n = 0 THEN p ELSE SkipBytes(s, readByte(s, p).pos, n - 1)

\* canUnderstand of the CoreImage build: five bytes skipped, two ints compared
HEIFcanUnderstandCoreImage(s, p) ==
    LET p5 == SkipBytes(s, p, 5)
        ftpy == readInt(s, p5)
        heic == readInt(s, ftpy.pos)
    IN [ret |-> heic.val = HeifHeic /\ ftpy.val = HeifFtyp, pos |-> heic.pos, alloc |-> 0]

\* canUnderstand of the builds without a decoder: nothing is read
HEIFcanUnderstandStub(s, p, answer) == [ret |-> answer, pos |-> p, alloc |-> 0]

\* ------------------------------------------------ streams the model is fed
\* a file is described by its header fields, the number of palette entries
\* stored between header and pixel data (gap), a seed for its contents, the
\* number of bytes kept (cut, -1 = all) and the bytes in front of it (start)
JunkBytes == {0, 205}

Magics == {<<CharB, CharM>>, <<CharB, 65>>, <<88, CharM>>, <<0, 0>>}

GenPaletteEntry(i, seed) == <<(10 + i) % 256, (20 + 2 * i) % 256, (30 + 3 * i + seed) % 256, 0>>

GenPalette(n, seed) == [i \in 1 .. 4 * n |-> GenPaletteEntry((i - 1) \div 4, seed)[((i - 1) % 4) + 1]]

GenPixelByte(bpp, seed, r, k) ==
    IF bpp = 8 THEN (seed + r + k) % 3 ELSE (5 + 50 * seed + 16 * r + 3 * k) % 256

GenRows(f) ==
    LET stride == BytesPerRow(f.bpp, f.width)
        n == stride * Abs(f.height)
    IN [i \in 1 .. n |-> GenPixelByte(f.bpp, f.seed, (i - 1) \div stride, (i - 1) % stride)]

GenHeader(f) ==
    LET dataSize == BytesPerRow(f.bpp, f.width) * Abs(f.height)
        offset == BMPHeaderSize + 4 * f.gap
    IN f.magic \o LE32(offset + dataSize) \o LE16(0) \o LE16(0) \o LE32(offset)
       \o LE32(BMPInfoHeaderSize) \o LE32(f.width) \o LE32(f.height) \o LE16(1) \o LE16(f.bpp)
       \o LE32(f.compression) \o LE32(dataSize) \o LE32(PixelsPerMeter) \o LE32(PixelsPerMeter)
       \o LE32(f.coloursUsed) \o LE32(0)

GenFile(f) ==
    LET full == GenHeader(f) \o GenPalette(f.gap, f.seed) \o GenRows(f)
        kept == IF f.cut < 0 THEN Len(full) ELSE Min(f.cut, Len(full))
    IN [i \in 1 .. f.start |-> CharB] \o SubSeq(full, 1, kept)

\* palette entries a well-formed file of this depth stores
GapFor(bpp, coloursUsed) ==
    IF bpp = 8 THEN (IF coloursUsed = 0 THEN DefaultPaletteSize ELSE coloursUsed) ELSE 0

Widths == 1 .. MaxWidth

Heights == ((0 - MaxHeight) .. MaxHeight) \ {0}

Depths == {8, 24, 32}

\* complete files of every supported depth, size and row order
WellFormed ==
    { [magic |-> <<CharB, CharM>>, width |-> w, height |-> h, bpp |-> b, compression |-> 0,
       coloursUsed |-> cu, gap |-> g, seed |-> sd, cut |-> 0 - 1, start |-> 0] :
         w \in Widths, h \in Heights, b \in Depths, cu \in 0 .. MaxColoursUsed,
         g \in {0, 1}, sd \in 0 .. MaxSeed }

\* well-formed files with the palette they declare in front of the pixel data
WithPalette ==
    { [magic |-> <<CharB, CharM>>, width |-> MaxWidth, height |-> h, bpp |-> b, compression |-> 0,
       coloursUsed |-> cu, gap |-> GapFor(8, cu), seed |-> 0, cut |-> 0 - 1, start |-> 0] :
         h \in {0 - MaxHeight, MaxHeight}, b \in Depths, cu \in 0 .. MaxColoursUsed }

\* headers with a wrong magic, compression, depth or a zero dimension
BadHeader ==
    { [magic |-> m, width |-> w, height |-> h, bpp |-> b, compression |-> c,
       coloursUsed |-> 0, gap |-> 0, seed |-> 0, cut |-> 0 - 1, start |-> 0] :
         m \in Magics, w \in 0 .. MaxWidth, h \in {0 - 1, 0, MaxHeight},
         b \in Depths \cup {16}, c \in {0, 1} }

Cuts == {0, 1, 2, BMPFileHeaderSize, 30, BMPHeaderSize - 1, BMPHeaderSize, BMPHeaderSize + 2,
         BMPHeaderSize + 5, BMPHeaderSize + 9}

\* files that end early
Truncated ==
    { [magic |-> <<CharB, CharM>>, width |-> w, height |-> h, bpp |-> b, compression |-> 0,
       coloursUsed |-> cu, gap |-> cu, seed |-> 0, cut |-> k, start |-> 0] :
         w \in Widths, h \in {0 - 1, MaxHeight}, b \in Depths, cu \in {0, MaxColoursUsed},
         k \in Cuts }

\* files that are not at the start of the stream
Shifted ==
    { [magic |-> m, width |-> 1, height |-> 1, bpp |-> b, compression |-> 0,
       coloursUsed |-> 0, gap |-> 0, seed |-> 0, cut |-> k, start |-> st] :
         m \in Magics, b \in {24, 32}, k \in {0 - 1, 0, 1, 2}, st \in 1 .. MaxStartPos }

Files == WellFormed \cup WithPalette \cup BadHeader \cup Truncated \cup Shifted

\* the start of a HEIC file: box size, 'ftyp', 'heic', minor version
HeicFile(n) == <<0, 0, 0, 24, 102, 116, 121, 112, 104, 101, 105, 99, 0>> \o [i \in 1 .. n |-> 0]

\* images handed to the writer
GenPixel(format, seed, x, y) ==
    <<IF format = "RGB" THEN 255 ELSE (200 + 7 * seed + x + 2 * y) % 256,
      (10 + x + 40 * seed) % 256, (20 + 3 * y) % 256, (30 + 5 * x + y) % 256>>

GenImage(format, w, h, seed) ==
    [null |-> FALSE, format |-> format, width |-> w, height |-> h,
     px |-> [c \in Coords(w, h) |-> GenPixel(format, seed, c[1], c[2])]]

\* ------------------------------------------------------------ the machine
\* the stride computations applied to a width and a depth on their own
NoCalc == [width |-> 0, bits |-> 0, done |-> {}, bytesPerRow |-> 0, stride |-> 0,
           maxIndex |-> 0 - 1, maxIndexOld |-> 0 - 1]

Init ==
    /\ dst = <<>>
    /\ op = "none"
    /\ ret = FALSE
    /\ image = NullImage
    /\ ctorArgs = <<>>
    /\ alloc = 0
    /\ phase = "ready"
    /\ trace = NoTrace
    /\ calc = NoCalc
    /\ \/ \E f \in Files :
            /\ input = GenFile(f)
            /\ pos = f.start
            /\ startPos = f.start
            /\ srcImage = NullImage
       \/ \E n \in {0, 4} :
            /\ input = HeicFile(n)
            /\ pos = 0
            /\ startPos = 0
            /\ srcImage = NullImage
       \/ \E format \in {"RGB", "ARGB"}, w \in Widths, h \in 1 .. MaxHeight, sd \in 0 .. MaxSeed :
            /\ input = <<>>
            /\ pos = 0
            /\ startPos = 0
            /\ srcImage = GenImage(format, w, h, sd)

\* a sniff returned r
Sniffed(name, r) ==
    /\ phase = "ready"
    /\ op' = name
    /\ ret' = r.ret
    /\ pos' = r.pos
    /\ phase' = "done"
    /\ UNCHANGED <<input, startPos, srcImage, dst, image, ctorArgs, trace, calc>>

\* a decoder returned r
Decoded(name, r) ==
    /\ phase = "ready"
    /\ op' = name
    /\ image' = r.image
    /\ pos' = r.pos
    /\ ctorArgs' = r.ctorArgs
    /\ alloc' = r.alloc
    /\ trace' = r.trace
    /\ phase' = "done"
    /\ UNCHANGED <<input, startPos, srcImage, dst, ret, calc>>

CanUnderstand ==
    /\ Sniffed("canUnderstand", canUnderstand(input, pos))
    /\ alloc' = 0

CanUnderstandOld ==
    /\ Sniffed("canUnderstandOld", canUnderstandOld(input, pos))
    /\ alloc' = 0

DecodeImage == \E junk \in JunkBytes : Decoded("decodeImage", decodeImage(input, pos, junk))

DecodeImageOld == \E junk \in JunkBytes : Decoded("decodeImageOld", decodeImageOld(input, pos, junk))

WriteImageToStream ==
    /\ phase = "ready"
    /\ ~srcImage.null
    /\ dst = <<>>
    /\ dst' = dst \o writeImageToStream(srcImage)
    /\ op' = "writeImageToStream"
    /\ ret' = TRUE
    /\ phase' = "written"
    /\ UNCHANGED <<input, pos, startPos, srcImage, image, ctorArgs, alloc, trace, calc>>

\* the written bytes are read back through a stream positioned at 0
Reopen ==
    /\ phase = "written"
    /\ input' = dst
    /\ pos' = 0
    /\ startPos' = 0
    /\ op' = "reopen"
    /\ phase' = "ready"
    /\ UNCHANGED <<srcImage, dst, ret, image, ctorArgs, alloc, trace, calc>>

HEIFCanUnderstandLib ==
    \E ok \in BOOLEAN :
        LET r == HEIFcanUnderstandLib(input, pos, ok)
        IN Sniffed("heifCanUnderstandLib", r) /\ alloc' = r.alloc

HEIFCanUnderstandCoreImage ==
    LET r == HEIFcanUnderstandCoreImage(input, pos)
    IN Sniffed("heifCanUnderstandCoreImage", r) /\ alloc' = r.alloc

HEIFCanUnderstandStub ==
    \E answer \in BOOLEAN :
        LET r == HEIFcanUnderstandStub(input, pos, answer)
        IN Sniffed("heifCanUnderstandStub", r) /\ alloc' = r.alloc

Next ==
    \/ CanUnderstand
    \/ CanUnderstandOld
    \/ DecodeImage
    \/ DecodeImageOld
    \/ WriteImageToStream
    \/ Reopen
    \/ HEIFCanUnderstandLib
    \/ HEIFCanUnderstandCoreImage
    \/ HEIFCanUnderstandStub

Spec == Init /\ [][Next]_vars

\* -------------------------------------------- the stride arithmetic alone
\* the largest width for which bitsPerPixel * width + 31 is still an int
LargestWidth(bitsPerPixel) == 2147483616 \div bitsPerPixel

StrideWidths(bitsPerPixel) ==
    (1 .. MaxStrideWidth) \cup {LargestWidth(bitsPerPixel) - 1, LargestWidth(bitsPerPixel)}

InitStride ==
    /\ input = <<>>
    /\ pos = 0
    /\ startPos = 0
    /\ srcImage = NullImage
    /\ dst = <<>>
    /\ op = "none"
    /\ ret = FALSE
    /\ image = NullImage
    /\ ctorArgs = <<>>
    /\ alloc = 0
    /\ phase = "calc"
    /\ trace = NoTrace
    /\ \E b \in Depths : \E w \in StrideWidths(b) :
          calc = [NoCalc EXCEPT !.width = w, !.bits = b]

\* bytesPerRow and the pixel loop's indexes as decodeImage computes them
ComputeBytesPerRow ==
    /\ phase = "calc"
    /\ "later" \notin calc.done
    /\ calc' = [calc EXCEPT !.bytesPerRow = BytesPerRow(calc.bits, calc.width),
                            !.maxIndex = HighestIndex(calc.width, calc.bits),
                            !.done = calc.done \cup {"later"}]
    /\ UNCHANGED <<input, pos, startPos, srcImage, dst, op, ret, image, ctorArgs, alloc,
                   phase, trace>>

\* stride and the pixel loop's indexes as the earlier decodeImage computes them
ComputeStrideOld ==
    /\ phase = "calc"
    /\ "earlier" \notin calc.done
    /\ calc' = [calc EXCEPT !.stride = StrideOld(calc.width, calc.bits),
                            !.maxIndexOld = HighestIndexOld(calc.width, calc.bits),
                            !.done = calc.done \cup {"earlier"}]
    /\ UNCHANGED <<input, pos, startPos, srcImage, dst, op, ret, image, ctorArgs, alloc,
                   phase, trace>>

NextStride == ComputeBytesPerRow \/ ComputeStrideOld

SpecStride == InitStride /\ [][NextStride]_vars

TypeOK ==
    /\ pos \in 0 .. Len(input)
    /\ phase \in {"ready", "written", "done", "calc"}
    /\ ret \in BOOLEAN

\* ================================================================ claims
\* the header of the stream as decodeImage parses it
Hdr == readHeader(input, startPos)

HdrRows == Abs(Hdr.height)

HdrStride == BytesPerRow(Hdr.bitsPerPixel, Hdr.width)

HdrSupported == Hdr.compression = 0 /\ Hdr.bitsPerPixel \in {8, 24, 32}

\* the stream holds the whole header
HeaderPresent == startPos + BMPHeaderSize <= Len(input)

\* the stream holds every pixel row the header declares
RowsPresent ==
    /\ Hdr.dataOffset >= 0
    /\ Hdr.dataOffset + HdrRows * HdrStride <= Len(input)

HasMagic ==
    /\ startPos + 2 <= Len(input)
    /\ input[startPos + 1] = CharB
    /\ input[startPos + 2] = CharM

\* the header of the stream as the earlier decoder parses it
OldInfo == readInfo(input, startPos + BMPFileHeaderSize)

OldStride == StrideOld(OldInfo.width, OldInfo.bitCount)

OldRowsPresent ==
    startPos + BMPHeaderSize + Abs(OldInfo.height) * OldStride <= Len(input)

\* the bytes of the r-th row of the file
FileRow(offset, stride, r) == SubSeq(input, offset + r * stride + 1, offset + (r + 1) * stride)

RoundTripped == op = "decodeImage" /\ dst # <<>> /\ input = dst /\ startPos = 0

\* C1: an RGB or ARGB image written by writeImageToStream and decoded by
\* decodeImage from position 0 comes back with the same width and height and,
\* at every pixel, the source's red, green, blue and alpha (255 for RGB).
C1_RoundTrip ==
    RoundTripped =>
        /\ isValid(image)
        /\ image.width = srcImage.width
        /\ image.height = srcImage.height
        /\ \A c \in Coords(srcImage.width, srcImage.height) :
              image.px[c] = <<IF srcImage.format = "RGB" THEN 255 ELSE srcImage.px[c][1],
                              srcImage.px[c][2], srcImage.px[c][3], srcImage.px[c][4]>>

C1_Witness ==
    /\ RoundTripped
    /\ srcImage.height = MaxHeight
    /\ srcImage.format = "ARGB"
    /\ isValid(image)
    /\ image.px[<<0, 0>>] # image.px[<<0, MaxHeight - 1>>]

\* C2: canUnderstand of the 8/24/32-bit codec returns true exactly when the
\* next two bytes of the stream are 'B' and 'M'; an empty or one-byte stream
\* and any other two leading bytes give false.
C2_SniffCorrect == op = "canUnderstand" => (ret <=> HasMagic)

C2_Witness == op = "canUnderstand" /\ ret /\ Len(input) > BMPHeaderSize

\* C3 as stated: canUnderstand leaves a stream of at least two bytes exactly
\* two bytes further, whatever it returns.
C3_ReadsExactlyTwo ==
    (op = "canUnderstand" /\ startPos + 2 <= Len(input)) => pos = startPos + 2

\* C3 amended: on a stream of at least two bytes canUnderstand advances by two
\* when the first byte is 'B' and by one (the second byte is not read) otherwise.
C3_ReadsOneOrTwo ==
    (op = "canUnderstand" /\ startPos + 2 <= Len(input)) =>
        pos = startPos + (IF input[startPos + 1] = CharB THEN 2 ELSE 1)

C3_Witness ==
    /\ op = "canUnderstand"
    /\ startPos + 2 <= Len(input)
    /\ input[startPos + 1] # CharB
    /\ pos = startPos + 1
    /\ ~ret

\* C4: in both decoders the r-th row of the file lands in buffer row r when the
\* header height is negative and in buffer row H-1-r when it is positive.
C4_RowOrder ==
    /\ (op = "decodeImage" /\ HeaderPresent /\ HdrSupported /\ Hdr.width > 0 /\ RowsPresent) =>
          \A r \in 0 .. HdrRows - 1, x \in 0 .. Hdr.width - 1 :
              image.px[<<x, IF Hdr.height < 0 THEN r ELSE HdrRows - 1 - r>>]
                = PixelFromRow(FileRow(Hdr.dataOffset, HdrStride, r), x, Hdr,
                               readColourTable(input, Hdr.pos, PaletteCount(Hdr)).table)
    /\ (op = "decodeImageOld" /\ HeaderPresent /\ HasMagic /\ OldInfo.width > 0 /\ OldRowsPresent) =>
          \A r \in 0 .. Abs(OldInfo.height) - 1, x \in 0 .. OldInfo.width - 1 :
              image.px[<<x, IF OldInfo.height < 0 THEN r ELSE Abs(OldInfo.height) - 1 - r>>]
                = PixelFromScanLine(FileRow(startPos + BMPHeaderSize, OldStride, r), x,
                                    OldInfo.bitCount, 0)

C4_Witness ==
    /\ op = "decodeImage"
    /\ HeaderPresent /\ HdrSupported /\ RowsPresent
    /\ Hdr.width > 0
    /\ Hdr.height = MaxHeight
    /\ isValid(image)
    /\ image.px[<<0, 0>>] # image.px[<<0, MaxHeight - 1>>]

\* C5: decodeImage returns an invalid image whenever the stream ends before the
\* whole header, the whole palette or all height x rowStride bytes of rows.
C5_TruncatedIsInvalid ==
    /\ (op = "decodeImage" /\ ~HeaderPresent) => ~isValid(image)
    /\ (op = "decodeImage" /\ HeaderPresent /\ HdrSupported
          /\ Len(input) < Hdr.pos + 4 * PaletteCount(Hdr)) => ~isValid(image)
    /\ (op = "decodeImage" /\ HeaderPresent /\ HdrSupported /\ ~RowsPresent) => ~isValid(image)
    /\ (op = "decodeImageOld" /\ ~HeaderPresent) => ~isValid(image)
    /\ (op = "decodeImageOld" /\ HeaderPresent /\ ~OldRowsPresent) => ~isValid(image)

\* C6: for a header whose compression is not 0 or whose bits-per-pixel is not
\* 8, 24 or 32, decodeImage returns an invalid image, reads nothing beyond the
\* 54 header bytes and allocates neither a pixel buffer nor a row buffer.
C6_UnsupportedRejected ==
    (op = "decodeImage" /\ (Hdr.compression # 0 \/ Hdr.bitsPerPixel \notin {8, 24, 32})) =>
        /\ ~isValid(image)
        /\ ctorArgs = <<>>
        /\ alloc = 0
        /\ pos = Min(startPos + BMPHeaderSize, Len(input))

C6_Witness ==
    /\ op = "decodeImage"
    /\ Len(input) > startPos + BMPHeaderSize
    /\ Hdr.compression = 0
    /\ Hdr.bitsPerPixel = 16
    /\ Hdr.width > 0
    /\ Hdr.height > 0
    /\ ~isValid(image)

\* C7: for a header with a supported depth, compression 0 and width = 0 or
\* height = 0, decodeImage returns an invalid image and never constructs a
\* pixel buffer from a zero dimension.
C7_ZeroDimensionRejected ==
    /\ (op = "decodeImage" /\ HeaderPresent /\ HdrSupported
          /\ (Hdr.width = 0 \/ Hdr.height = 0)) =>
          /\ ~isValid(image)
          /\ \A i \in 1 .. Len(ctorArgs) : ctorArgs[i][1] # 0 /\ ctorArgs[i][2] # 0
    /\ (op = "decodeImageOld" /\ HeaderPresent /\ HasMagic
          /\ (OldInfo.width = 0 \/ OldInfo.height = 0)) =>
          /\ ~isValid(image)
          /\ \A i \in 1 .. Len(ctorArgs) : ctorArgs[i][1] # 0 /\ ctorArgs[i][2] # 0

\* C8: decodeImage returns an invalid image for every stream whose first two
\* bytes are not 'B','M', whatever the other header fields declare.
C8_MagicCheckedFirst ==
    (op \in {"decodeImage", "decodeImageOld"} /\ ~HasMagic) => ~isValid(image)

\* the header writeImageToStream put at the front of the output
Written == readHeader(dst, 0)

\* C9: writeImageToStream writes a file-size field of 54 + w*h*4, which is the
\* number of bytes written, offset 54, info-header size 40, width w, height +h,
\* planes 1, 32 bits per pixel, compression 0 and no palette.
C9_WrittenHeader ==
    op = "writeImageToStream" =>
        /\ Written.fileSize = BMPHeaderSize + srcImage.width * srcImage.height * 4
        /\ Written.fileSize = Len(dst)
        /\ Written.magic = BMType
        /\ Written.dataOffset = BMPHeaderSize
        /\ Written.headerSize = BMPInfoHeaderSize
        /\ Written.width = srcImage.width
        /\ Written.height = srcImage.height
        /\ Written.planes = 1
        /\ Written.bitsPerPixel = 32
        /\ Written.compression = 0
        /\ Written.coloursUsed = 0
        /\ Len(dst) = BMPHeaderSize + srcImage.width * srcImage.height * 4

HeifSniffs == {"heifCanUnderstandLib", "heifCanUnderstandCoreImage", "heifCanUnderstandStub"}

\* C10: every canUnderstand reads at most a fixed number of bytes, whatever the
\* length of the stream, and allocates no buffer that grows with the stream.
C10_SniffBoundedPrefix ==
    (op \in HeifSniffs \cup {"canUnderstand"}) =>
        /\ pos - startPos <= HeifSniffPrefix
        /\ alloc = 0

\* floor ((b * w + 31) / 32) * 4, written out
StrideFormula(b, w) == ((b * w + 31) \div 32) * 4

\* C11: for b in {8, 24, 32} and w > 0 with b*w + 31 an int, decodeImage's row
\* stride is floor((b*w + 31) / 32) * 4, a multiple of 4, and the mask-and-shift
\* stride of the earlier decoder is the same number; w=5 gives 16 at 24 bits
\* and 20 at 32 bits.
C11_Stride ==
    /\ "later" \in calc.done =>
          /\ calc.bytesPerRow = StrideFormula(calc.bits, calc.width)
          /\ calc.bytesPerRow % 4 = 0
          /\ (calc.width = 5 /\ calc.bits = 24) => calc.bytesPerRow = 16
          /\ (calc.width = 5 /\ calc.bits = 32) => calc.bytesPerRow = 20
    /\ "earlier" \in calc.done =>
          /\ calc.stride = StrideFormula(calc.bits, calc.width)
          /\ calc.stride % 4 = 0
    /\ calc.done = {"later", "earlier"} => calc.bytesPerRow = calc.stride

C11_Witness ==
    /\ calc.done = {"later", "earlier"}
    /\ calc.width = 5
    /\ calc.bits = 24
    /\ calc.bytesPerRow = 16
    /\ calc.stride = 16

\* palette entries the claim expects decodeImage to read
ClaimedPaletteCount ==
    IF Hdr.bitsPerPixel = 8
    THEN (IF Hdr.coloursUsed = 0 THEN 256 ELSE Hdr.coloursUsed)
    ELSE 0

\* C12: decodeImage reads exactly 256 palette entries for 8 bits with
\* coloursUsed = 0, exactly coloursUsed entries for 8 bits with coloursUsed > 0,
\* and none for 24 or 32 bits, whatever coloursUsed declares.
C12_PaletteEntriesRead ==
    (op = "decodeImage" /\ HdrSupported) => trace.palette = ClaimedPaletteCount

\* byte k of the palette entry with index i as the colour table loop reads it
PaletteByte(i, k) == readByte(input, Hdr.pos + 4 * i + k).val

\* a complete file of a supported depth was decoded by the later decoder
DecodedComplete ==
    op = "decodeImage" /\ HeaderPresent /\ HdrSupported /\ Hdr.width > 0 /\ RowsPresent

\* the pixel decoded from column x of file row r
DecodedPixel(r, x) == image.px[<<x, IF Hdr.height < 0 THEN r ELSE HdrRows - 1 - r>>]

\* the colour the claim gives to the true-colour pixel at column x of row bytes R
TrueColourOf(R, x) ==
    IF Hdr.bitsPerPixel = 24
    THEN <<255, R[3 * x + 3], R[3 * x + 2], R[3 * x + 1]>>
    ELSE <<R[4 * x + 4], R[4 * x + 3], R[4 * x + 2], R[4 * x + 1]>>

\* the opaque colour of the palette entry with index i
PaletteColourOf(i) == <<255, PaletteByte(i, 2), PaletteByte(i, 1), PaletteByte(i, 0)>>

\* C13 as stated: 24-bit bytes (b0,b1,b2) give blue, green, red and alpha 255;
\* 32-bit bytes (b0,b1,b2,b3) give blue, green, red, alpha; an 8-bit byte b0
\* gives the opaque colour of palette entry b0, for every b0.
C13_PixelFromBytes ==
    DecodedComplete =>
        \A r \in 0 .. HdrRows - 1, x \in 0 .. Hdr.width - 1 :
            LET R == FileRow(Hdr.dataOffset, HdrStride, r)
            IN IF Hdr.bitsPerPixel = 8
               THEN DecodedPixel(r, x) = PaletteColourOf(R[x + 1])
               ELSE DecodedPixel(r, x) = TrueColourOf(R, x)

\* C13 amended: the same, with the 8-bit case limited to bytes b0 below the
\* number of palette entries read.
C13_PixelFromBytesInTable ==
    DecodedComplete =>
        \A r \in 0 .. HdrRows - 1, x \in 0 .. Hdr.width - 1 :
            LET R == FileRow(Hdr.dataOffset, HdrStride, r)
            IN IF Hdr.bitsPerPixel = 8
               THEN R[x + 1] < trace.palette => DecodedPixel(r, x) = PaletteColourOf(R[x + 1])
               ELSE DecodedPixel(r, x) = TrueColourOf(R, x)

C13_Witness ==
    /\ DecodedComplete
    /\ Hdr.bitsPerPixel = 8
    /\ trace.palette = MaxColoursUsed
    /\ Hdr.dataOffset = BMPHeaderSize + 4 * MaxColoursUsed
    /\ Hdr.width > 1
    /\ FileRow(Hdr.dataOffset, HdrStride, 0)[2] = 1
    /\ DecodedPixel(0, 1) = PaletteColourOf(1)
    /\ DecodedPixel(0, 1)[2] # DecodedPixel(0, 1)[4]

\* C14: the first pixel row is read at the absolute position dataOffset and
\* row r at dataOffset + r * rowStride, for every row whose start lies within
\* the stream, however many bytes header and palette parsing consumed.
C14_RowsReadAtOffset ==
    (op = "decodeImage" /\ HdrSupported) =>
        /\ Len(trace.rowStarts) = HdrRows
        /\ \A r \in 0 .. HdrRows - 1 :
              (Hdr.dataOffset >= 0 /\ Hdr.dataOffset + r * HdrStride <= Len(input)) =>
                  trace.rowStarts[r + 1] = Hdr.dataOffset + r * HdrStride

C14_Witness ==
    /\ DecodedComplete
    /\ Hdr.bitsPerPixel = 8
    /\ trace.palette = DefaultPaletteSize
    /\ Hdr.dataOffset = BMPHeaderSize
    /\ HdrRows = MaxHeight
    /\ trace.rowStarts[1] = BMPHeaderSize
    /\ trace.rowStarts[MaxHeight] = BMPHeaderSize + (MaxHeight - 1) * HdrStride

\* C15: whenever dataOffset + |height| * rowStride exceeds the bytes in the
\* stream, decodeImage returns an invalid image and allocates neither the pixel
\* buffer nor the row buffer.
C15_ChecksBeforeAllocating ==
    /\ (op = "decodeImage" /\ HeaderPresent /\ HdrSupported /\ ~RowsPresent) =>
          /\ ~isValid(image)
          /\ ctorArgs = <<>>
          /\ alloc = 0
    /\ (op = "decodeImageOld" /\ HeaderPresent /\ HasMagic /\ ~OldRowsPresent) =>
          /\ ~isValid(image)
          /\ ctorArgs = <<>>
          /\ alloc = 0

LaterResult == decodeImage(input, startPos, 0).image

\* C17: on a complete uncompressed 24-bit BMP with width > 0, height # 0 and
\* pixel data at offset 54 the two decoders give images of the same size with
\* the same red, green and blue at every pixel.
C17_DecodersAgree ==
    (/\ op = "decodeImageOld"
     /\ startPos = 0
     /\ HeaderPresent /\ HasMagic
     /\ Hdr.bitsPerPixel = 24 /\ Hdr.compression = 0
     /\ Hdr.width > 0 /\ Hdr.height # 0
     /\ Hdr.dataOffset = BMPHeaderSize
     /\ RowsPresent) =>
        /\ isValid(image)
        /\ isValid(LaterResult)
        /\ image.width = LaterResult.width
        /\ image.height = LaterResult.height
        /\ \A c \in Coords(image.width, image.height) :
              /\ image.px[c][2] = LaterResult.px[c][2]
              /\ image.px[c][3] = LaterResult.px[c][3]
              /\ image.px[c][4] = LaterResult.px[c][4]

====
